---- MODULE Spec2Model ----
(***************************************************************************)
(* Model of the "0.1M" tiled-map archive decoder (src/src/map.rs and       *)
(* src/src/new_map.rs): header parser, mask table reader, tile unit reader *)
(* and the in-place JPEG repair loop, over an in-memory byte cursor.       *)
(* Positions are 0-based as in the source; TLA+ sequences are 1-based, so  *)
(* unit_data[i] of the source is d[i + 1] here.                            *)
(***************************************************************************)
EXTENDS Integers, Sequences, FiniteSets

VARIABLES
  variant,        \* "map" (map.rs) or "new_map" (new_map.rs)
  buf,            \* the archive bytes held by the cursor (load_mapfile)
  pos,            \* the cursor position
  pc,             \* the stage decode stands in
  result,         \* "none" while running, then "Ok", the error, or "Panic"
  header,         \* <<>> or <<MapHeader>>
  masks_offsets,  \* read_mask: the mask offset table
  mask_iter,      \* read_mask: 1-based position in masks_offsets
  masks,          \* read_mask: the masks read so far
  tile_iter,      \* read_unit: 1-based position in map_index_list
  units,          \* read_unit: the units pushed so far
  unit,           \* read_unit / read_jpeg: the unit being built
  index,          \* read_jpeg: the loop variable
  loop_len,       \* read_jpeg: the loop's upper bound, taken once
  is_ffda,        \* read_jpeg: the marker-seen flag
  files,          \* offsets n for which masks/n.png has been written
  lzo,            \* the external decompressor's verdict per payload
  full_len,       \* length of the archive file before it was cut short
  unpack          \* read_mask: the state of the bit-plane unpacking loop

vars == << variant, buf, pos, pc, result, header, masks_offsets, mask_iter,
           masks, tile_iter, units, unit, index, loop_len, is_ffda, files,
           lzo, full_len, unpack >>

(***************************************************************************)
(* Bounds of the checked input families.                                   *)
(***************************************************************************)
MaxShort == 3
MaxScan == 3
MaxMasks == 2
MaxMaskW == 9
MaxMaskH == 3

(***************************************************************************)
(* Bytes, sequences, little-endian words.                                  *)
(***************************************************************************)
SeqsUpTo(S, n) == UNION { [1..k -> S] : k \in 0..n }

RECURSIVE Concat(_)
Concat(ss) == IF ss = <<>> THEN <<>> ELSE Head(ss) \o Concat(Tail(ss))

Rep(x, n) == [i \in 1..n |-> x]

\* u32::from_le_bytes([x[0], x[1], x[2], x[3]])
from_le_bytes(x) == x[1] + 256 * x[2] + 65536 * x[3] + 16777216 * x[4]

\* the inverse, used to lay out archive files
to_le_bytes(n) ==
  << n % 256, (n \div 256) % 256, (n \div 65536) % 256, (n \div 16777216) % 256 >>

\* Vec::insert(k, x): shifts everything from k on to the right
InsertAt(d, k, x) == SubSeq(d, 1, k) \o <<x>> \o SubSeq(d, k + 1, Len(d))

EmptyUnit == [unit_flag |-> <<>>, size |-> 0, unit_data |-> <<>>]

\* the unpacking loop of read_mask before any mask has been decompressed
NoUnpack ==
  [width |-> 0, height |-> 0, k |-> 0, i |-> 0, desc |-> 0, out |-> <<>>,
   mask_data |-> <<>>, read |-> <<>>]

TAG_GEPJ == << 71, 69, 80, 74 >>
TAG_2GPJ == << 50, 71, 80, 74 >>
MAGIC == << 48, 46, 49, 77 >>

(***************************************************************************)
(* read_jpeg: the repair loop, one loop iteration per step.                *)
(***************************************************************************)
JpegPanic == [out |-> "panic", data |-> <<>>, ffda |-> FALSE]

\* the arm taken while the marker has not been seen
ScanArm(d, i) ==
  IF d[i + 1] # 255 THEN [out |-> "next", data |-> d, ffda |-> FALSE]
  ELSE IF i + 1 >= Len(d) THEN JpegPanic
  ELSE IF d[i + 2] # 218 THEN [out |-> "next", data |-> d, ffda |-> FALSE]
  ELSE IF i + 3 >= Len(d) THEN JpegPanic
  ELSE IF i + 13 > Len(d) THEN JpegPanic
  ELSE LET d1 == [d EXCEPT ![i + 4] = 12]
           d2 == InsertAt(d1, i + 13, 0)
           d3 == InsertAt(d2, i + 14, 63)
           d4 == InsertAt(d3, i + 15, 0)
       IN [out |-> "next", data |-> d4, ffda |-> TRUE]

\* the arm taken once the marker has been seen
StuffArm(d, i) ==
  IF d[i + 1] # 255 THEN [out |-> "next", data |-> d, ffda |-> TRUE]
  ELSE IF i + 1 >= Len(d) THEN JpegPanic
  ELSE IF d[i + 2] = 217 THEN [out |-> "break", data |-> d, ffda |-> TRUE]
  ELSE [out |-> "next", data |-> InsertAt(d, i + 1, 0), ffda |-> TRUE]

\* an error (or a panic) leaves decode: pc keeps the stage it happened in
Abort(err) ==
  /\ result' = err
  /\ UNCHANGED << variant, buf, pos, pc, header, masks_offsets, mask_iter,
                  masks, tile_iter, units, unit, index, loop_len, is_ffda,
                  files, lzo, full_len, unpack >>

JpegApply(r) ==
  IF r.out = "panic" THEN Abort("Panic")
  ELSE /\ unit' = [unit EXCEPT !.unit_data = r.data]
       /\ is_ffda' = r.ffda
       /\ index' = index + 1
       /\ pc' = IF r.out = "break" THEN "jpeg_done" ELSE "jpeg"
       /\ UNCHANGED << variant, buf, pos, result, header, masks_offsets,
                       mask_iter, masks, tile_iter, units, loop_len, files,
                       lzo, full_len, unpack >>

JpegScan ==
  /\ result = "none"
  /\ pc = "jpeg"
  /\ index < loop_len
  /\ ~is_ffda
  /\ JpegApply(ScanArm(unit.unit_data, index))

JpegStuff ==
  /\ result = "none"
  /\ pc = "jpeg"
  /\ index < loop_len
  /\ is_ffda
  /\ JpegApply(StuffArm(unit.unit_data, index))

\* the range 0..len is exhausted: read_jpeg returns Ok(())
JpegReturn ==
  /\ result = "none"
  /\ pc = "jpeg"
  /\ index = loop_len
  /\ pc' = "jpeg_done"
  /\ UNCHANGED << variant, buf, pos, result, header, masks_offsets, mask_iter,
                  masks, tile_iter, units, unit, index, loop_len, is_ffda,
                  files, lzo, full_len, unpack >>

(***************************************************************************)
(* buffer_utils (the byte cursor reader) and std::io::Cursor.              *)
(***************************************************************************)
Remaining(b, p) == IF p >= Len(b) THEN 0 ELSE Len(b) - p

\* buffer_utils::read_bytes succeeds iff n bytes remain at p
CanRead(b, p, n) == n <= Remaining(b, p)

\* the n bytes it returns
Bytes(b, p, n) == SubSeq(b, p + 1, p + n)

\* buffer_utils::read_u32: read_bytes(4) as a little-endian word
U32At(b, p) == from_le_bytes(Bytes(b, p, 4))

\* a seek that refuses an offset past the end of the buffer
seek_checked(b, off) == [ok |-> off <= Len(b), pos |-> off]

\* Cursor::seek(SeekFrom::Start(off)): sets the position, whatever off is
seek(b, off) == [ok |-> TRUE, pos |-> off]

\* String::from_utf8: is the byte string well-formed UTF-8?
RECURSIVE IsUtf8(_)
IsUtf8(s) ==
  IF s = <<>> THEN TRUE
  ELSE LET a == s[1]
           n == Len(s)
           Cont(k) == k <= n /\ s[k] \in 128..191
           In(k, lo, hi) == k <= n /\ s[k] \in lo..hi
       IN IF a < 128 THEN IsUtf8(Tail(s))
          ELSE IF a \in 194..223 THEN Cont(2) /\ IsUtf8(SubSeq(s, 3, n))
          ELSE IF a = 224
            THEN In(2, 160, 191) /\ Cont(3) /\ IsUtf8(SubSeq(s, 4, n))
          ELSE IF a \in (225..236) \cup (238..239)
            THEN Cont(2) /\ Cont(3) /\ IsUtf8(SubSeq(s, 4, n))
          ELSE IF a = 237
            THEN In(2, 128, 159) /\ Cont(3) /\ IsUtf8(SubSeq(s, 4, n))
          ELSE IF a = 240
            THEN In(2, 144, 191) /\ Cont(3) /\ Cont(4) /\ IsUtf8(SubSeq(s, 5, n))
          ELSE IF a \in 241..243
            THEN Cont(2) /\ Cont(3) /\ Cont(4) /\ IsUtf8(SubSeq(s, 5, n))
          ELSE IF a = 244
            THEN In(2, 128, 143) /\ Cont(3) /\ Cont(4) /\ IsUtf8(SubSeq(s, 5, n))
          ELSE FALSE

(***************************************************************************)
(* read_header: the grid geometry is computed in f32.                      *)
(***************************************************************************)
TILE_H == 240
TILE_W == 320

RECURSIVE Pow2(_)
Pow2(n) == IF n = 0 THEN 1 ELSE 2 * Pow2(n - 1)

\* floor(log2 n) for 1 <= n < 2^31
ExpOf(n) == CHOOSE e \in 0..30 : n \div Pow2(e) = 1

\* num/den rounded to the nearest integer, ties to the one that makes
\* base + result even (IEEE 754 round-half-to-even on a significand)
RoundHalfEven(num, den, base) ==
  LET q == num \div den
      r == num % den
  IN IF 2 * r < den THEN q
     ELSE IF 2 * r > den THEN q + 1
     ELSE IF (base + q) % 2 = 0 THEN q ELSE q + 1

\* `n as f32`: 24 significand bits, round to nearest even (n < 2^31 here)
u32_as_f32(n) ==
  IF n < 16777216 THEN n
  ELSE LET ulp == Pow2(ExpOf(n) - 23) IN RoundHalfEven(n, ulp, 0) * ulp

\* ((n as f32) / d).ceil() as u32, for the f32 constant d = 240.0 or 320.0.
\* The exact quotient k + r/d is rounded to the f32 grid of k's binade
\* (spacing 1/s) and then raised to the next integer.  Where that spacing
\* is no coarser than 1/d the rounded quotient stays strictly between k and
\* k + 1, so the ceiling is k + 1 without rounding the significand.
f32_div_ceil(n, d) ==
  LET x == u32_as_f32(n)
      k == x \div d
      r == x % d
  IN IF r = 0 THEN k
     ELSE IF k = 0 THEN 1
     ELSE LET s == Pow2(23 - ExpOf(k))
          IN IF s >= d THEN k + 1
             ELSE IF RoundHalfEven(r * s, d, k * s) > 0 THEN k + 1 ELSE k

HeaderOut(err, h, p) == [err |-> err, hdr |-> h, pos |-> p]

read_header(b, p) ==
  IF ~CanRead(b, p, 4) THEN HeaderOut("Truncated", <<>>, p)
  ELSE LET flag_bytes == Bytes(b, p, 4) IN
  IF ~IsUtf8(flag_bytes) THEN HeaderOut("EncodingError", <<>>, p)
  ELSE IF flag_bytes # MAGIC THEN HeaderOut("InvalidFormat", <<>>, p)
  ELSE IF ~CanRead(b, p + 4, 4) THEN HeaderOut("Truncated", <<>>, p)
  ELSE IF ~CanRead(b, p + 8, 4) THEN HeaderOut("Truncated", <<>>, p)
  ELSE LET width == U32At(b, p + 4)
           height == U32At(b, p + 8)
           rows == f32_div_ceil(height, TILE_H)
           cols == f32_div_ceil(width, TILE_W)
           index_size == rows * cols
       IN IF ~CanRead(b, p + 12, index_size * 4)
            THEN HeaderOut("Truncated", <<>>, p)
            ELSE HeaderOut("Ok",
                   << [flag |-> from_le_bytes(flag_bytes),
                       width |-> width,
                       height |-> height,
                       map_index_list |->
                         [j \in 1..index_size |-> U32At(b, p + 12 + 4 * (j - 1))],
                       rows |-> rows,
                       cols |-> cols,
                       index_size |-> index_size] >>,
                   p + 12 + index_size * 4)

\* decode: let header = read_header(&mut bytes)?
DecodeHeader ==
  /\ result = "none"
  /\ pc = "header"
  /\ LET r == read_header(buf, pos) IN
     IF r.err # "Ok" THEN Abort(r.err)
     ELSE /\ header' = r.hdr
          /\ pos' = r.pos
          /\ pc' = "mask_table"
          /\ UNCHANGED << variant, buf, result, masks_offsets, mask_iter,
                          masks, tile_iter, units, unit, index, loop_len,
                          is_ffda, files, lzo, full_len, unpack >>

(***************************************************************************)
(* read_mask: the offset table, then one record per step.                  *)
(***************************************************************************)
ReadMaskTable ==
  /\ result = "none"
  /\ pc = "mask_table"
  /\ IF ~CanRead(buf, pos, 4) \/ ~CanRead(buf, pos + 4, 4) THEN Abort("Truncated")
     ELSE LET mask_num == U32At(buf, pos + 4) IN
       IF ~CanRead(buf, pos + 8, mask_num * 4) THEN Abort("Truncated")
       ELSE /\ masks_offsets' = [j \in 1..mask_num |-> U32At(buf, pos + 8 + 4 * (j - 1))]
            /\ pos' = pos + 8 + mask_num * 4
            /\ mask_iter' = 1
            /\ masks' = <<>>
            /\ pc' = "mask_record"
            /\ UNCHANGED << variant, buf, result, header, tile_iter, units,
                            unit, index, loop_len, is_ffda, files, lzo,
                            full_len, unpack >>

\* the statuses rust_lzo may report for a payload: the verdict recorded for
\* it, or either one for a payload nothing is recorded about
LzoOutcomes(data) ==
  IF data \in DOMAIN lzo THEN { lzo[data] } ELSE { "OK", "ERR" }

\* what a decompressed plane may hold
LzoFill == { 0, 255 }

\* a row stride that forgets the partial group of four pixels
aiginw_floor(width) == (width \div 4) * 4

aiginw(width) == ((width \div 4) + (IF width % 4 # 0 THEN 1 ELSE 0)) * 4

\* the byte the unpacking loop indexes for pixel (k, i)
MaskByteIndex(width, k, i) == ((k * aiginw(width) + i) * 2) \div 8

\* does the unpacking loop stay inside a plane of n bytes?
UnpackInBounds(width, height, n) ==
  \A k \in 0..(height - 1) : \A i \in 0..(width - 1) :
     MaskByteIndex(width, k, i) < n

\* the bit offset of pixel (k, i) inside that byte
MaskBitOffset(width, k, i) == ((k * aiginw(width) + i) * 2) % 8

\* what a decompressed plane may hold in the unpacking runs: no bit set,
\* the field at bit offset 2 set, every bit set
PlaneBytes == { 0, 12, 255 }

\* the state read_mask enters its unpacking loop with
UnpackStart(width, height, fill) ==
  [width |-> width, height |-> height, k |-> 0, i |-> 0, desc |-> 0,
   out |-> Rep(fill, (aiginw(width) * height) \div 4),
   mask_data |-> Rep(0, width * height), read |-> <<>>]

\* one pass of the body of `for i in 0..width`
UnpackPixel ==
  /\ result = "none"
  /\ pc = "unpack"
  /\ unpack.k < unpack.height
  /\ unpack.i < unpack.width
  /\ LET byte == MaskByteIndex(unpack.width, unpack.k, unpack.i)
         shift == MaskBitOffset(unpack.width, unpack.k, unpack.i)
         read == << [byte |-> byte, shift |-> shift] >>
     IN
     IF byte >= Len(unpack.out) \/ unpack.desc >= Len(unpack.mask_data)
       THEN /\ result' = "Panic"
            /\ unpack' = [unpack EXCEPT !.read = read]
       ELSE LET mask == (unpack.out[byte + 1] \div Pow2(shift)) % 4
            IN
            /\ result' = result
            /\ unpack' = [unpack EXCEPT
                            !.read = read,
                            !.mask_data[unpack.desc + 1] =
                               IF mask = 3 THEN 240 ELSE @,
                            !.desc = @ + 1,
                            !.i = @ + 1]
  /\ UNCHANGED << variant, buf, pos, pc, header, masks_offsets, mask_iter,
                  masks, tile_iter, units, unit, index, loop_len, is_ffda,
                  files, lzo, full_len >>

\* `for i in 0..width` is exhausted: the next pass of `for k in 0..height`
UnpackNextRow ==
  /\ result = "none"
  /\ pc = "unpack"
  /\ unpack.k < unpack.height
  /\ unpack.i = unpack.width
  /\ unpack' = [unpack EXCEPT !.k = @ + 1, !.i = 0]
  /\ UNCHANGED << variant, buf, pos, pc, result, header, masks_offsets,
                  mask_iter, masks, tile_iter, units, unit, index, loop_len,
                  is_ffda, files, lzo, full_len >>

\* `for k in 0..height` is exhausted
UnpackReturn ==
  /\ result = "none"
  /\ pc = "unpack"
  /\ unpack.k = unpack.height
  /\ result' = "Ok"
  /\ UNCHANGED << variant, buf, pos, pc, header, masks_offsets, mask_iter,
                  masks, tile_iter, units, unit, index, loop_len, is_ffda,
                  files, lzo, full_len, unpack >>

MaskOut(err, m, p, file) == [err |-> err, mask |-> m, pos |-> p, file |-> file]

\* the body of `for offset in masks_offsets`; status, fill and saved are
\* what the decompressor and the file system answer
read_mask_record(v, b, offset, status, fill, saved) ==
  LET s == seek(b, offset)
      p == s.pos
  IN
  IF ~s.ok THEN MaskOut("OutOfRange", <<>>, p, {})
  ELSE IF ~CanRead(b, p, 20) THEN MaskOut("Truncated", <<>>, p, {})
  ELSE LET x == U32At(b, p)
           y == U32At(b, p + 4)
           width == U32At(b, p + 8)
           height == U32At(b, p + 12)
           size == U32At(b, p + 16)
       IN
  IF ~CanRead(b, p + 20, size) THEN MaskOut("Truncated", <<>>, p, {})
  ELSE LET data == Bytes(b, p + 20, size)
           mask_index == (aiginw(width) * height) \div 4
           plane == Rep(fill, mask_index)
       IN
  IF v = "map"
    THEN MaskOut("Ok", << [x |-> x, y |-> y, width |-> width, height |-> height,
                           size |-> size, data |-> data] >>, p + 20 + size, {})
  ELSE IF status # "OK" THEN MaskOut("MaskDecompressionFailed", <<>>, p, {})
  ELSE IF ~UnpackInBounds(width, height, Len(plane)) THEN MaskOut("Panic", <<>>, p, {})
  ELSE IF ~saved THEN MaskOut("Panic", <<>>, p, {})
  ELSE MaskOut("Ok", << [x |-> x, y |-> y, width |-> width, height |-> height,
                         size |-> size, data |-> plane] >>, p + 20 + size,
               { offset })

\* the raw payload of the record at offset, when it can be read
MaskPayloadAt(b, offset) ==
  IF CanRead(b, offset, 20) /\ CanRead(b, offset + 20, U32At(b, offset + 16))
    THEN << Bytes(b, offset + 20, U32At(b, offset + 16)) >>
    ELSE <<>>

ReadMaskRecord ==
  /\ result = "none"
  /\ pc = "mask_record"
  /\ mask_iter <= Len(masks_offsets)
  /\ LET offset == masks_offsets[mask_iter]
         pl == MaskPayloadAt(buf, offset)
     IN \E status \in (IF pl = <<>> \/ variant = "map" THEN { "OK" } ELSE LzoOutcomes(pl[1])) :
        \E fill \in (IF variant = "map" \/ status # "OK" \/ pl = <<>> THEN { 0 } ELSE LzoFill) :
        \E saved \in (IF variant = "map" \/ status # "OK" \/ pl = <<>> THEN { TRUE } ELSE BOOLEAN) :
          LET r == read_mask_record(variant, buf, offset, status, fill, saved) IN
          IF r.err # "Ok"
            THEN /\ result' = r.err
                 /\ pos' = r.pos
                 /\ UNCHANGED << variant, buf, pc, header, masks_offsets,
                                 mask_iter, masks, tile_iter, units, unit,
                                 index, loop_len, is_ffda, files, lzo,
                                 full_len, unpack >>
            ELSE /\ masks' = masks \o r.mask
                 /\ pos' = r.pos
                 /\ files' = files \cup r.file
                 /\ mask_iter' = mask_iter + 1
                 /\ UNCHANGED << variant, buf, pc, result, header,
                                 masks_offsets, tile_iter, units, unit, index,
                                 loop_len, is_ffda, lzo, full_len, unpack >>

\* read_mask returns Ok(masks); decode goes on to read_unit
MaskReturn ==
  /\ result = "none"
  /\ pc = "mask_record"
  /\ mask_iter > Len(masks_offsets)
  /\ pc' = "unit"
  /\ tile_iter' = 1
  /\ units' = <<>>
  /\ UNCHANGED << variant, buf, pos, result, header, masks_offsets, mask_iter,
                  masks, unit, index, loop_len, is_ffda, files, lzo, full_len, unpack >>

(***************************************************************************)
(* read_unit: one index entry per step.                                    *)
(***************************************************************************)
\* a dispatch that takes every tag but "GEPJ" for a plain JPEG
dispatch_else(tag) == IF tag = TAG_GEPJ THEN "jpeg" ELSE "verbatim"

\* a dispatch that sends "2GPJ" through the repair as well
dispatch_repair_all(tag) ==
  IF tag = TAG_GEPJ \/ tag = TAG_2GPJ THEN "jpeg" ELSE "skip"

\* the if / else-if on unit_flag
dispatch(tag) ==
  IF tag = TAG_GEPJ THEN "jpeg"
  ELSE IF tag = TAG_2GPJ THEN "verbatim"
  ELSE "skip"

UnitOut(err, act, u, p) == [err |-> err, act |-> act, unit |-> u, pos |-> p]

\* the body of `for index in map_header.map_index_list.iter()` up to the
\* payload read; the repair of a "GEPJ" payload follows in the loop steps
read_unit_record(b, offset) ==
  LET s == seek(b, offset) IN
  IF ~s.ok THEN UnitOut("OutOfRange", "none", EmptyUnit, s.pos)
  ELSE IF ~CanRead(b, s.pos, 4) THEN UnitOut("Truncated", "none", EmptyUnit, s.pos)
  ELSE LET unkonwn == U32At(b, s.pos)
           p1 == s.pos + 4
       IN
  IF ~CanRead(b, p1, 4 * unkonwn) THEN UnitOut("Truncated", "none", EmptyUnit, p1)
  ELSE LET p2 == p1 + 4 * unkonwn IN
  IF ~CanRead(b, p2, 8) THEN UnitOut("Truncated", "none", EmptyUnit, p2)
  ELSE LET unit_head == Bytes(b, p2, 8)
           tag == SubSeq(unit_head, 1, 4)
           size == from_le_bytes(SubSeq(unit_head, 5, 8))
           p3 == p2 + 8
           act == dispatch(tag)
       IN
  IF ~IsUtf8(tag) THEN UnitOut("EncodingError", "none", EmptyUnit, p3)
  ELSE IF act = "skip"
    THEN UnitOut("Ok", "skip", [unit_flag |-> tag, size |-> size, unit_data |-> <<>>], p3)
  ELSE IF ~CanRead(b, p3, size) THEN UnitOut("Truncated", "none", EmptyUnit, p3)
  ELSE UnitOut("Ok", act,
               [unit_flag |-> tag, size |-> size, unit_data |-> Bytes(b, p3, size)],
               p3 + size)

ReadUnit ==
  /\ result = "none"
  /\ pc = "unit"
  /\ tile_iter <= Len(header[1].map_index_list)
  /\ LET r == read_unit_record(buf, header[1].map_index_list[tile_iter]) IN
     IF r.err # "Ok"
       THEN /\ result' = r.err
            /\ pos' = r.pos
            /\ UNCHANGED << variant, buf, pc, header, masks_offsets, mask_iter,
                            masks, tile_iter, units, unit, index, loop_len,
                            is_ffda, files, lzo, full_len, unpack >>
     ELSE IF r.act = "jpeg"
       THEN /\ unit' = r.unit
            /\ pos' = r.pos
            /\ index' = 0
            /\ loop_len' = Len(r.unit.unit_data)
            /\ is_ffda' = FALSE
            /\ pc' = "jpeg"
            /\ UNCHANGED << variant, buf, result, header, masks_offsets,
                            mask_iter, masks, tile_iter, units, files, lzo,
                            full_len, unpack >>
     ELSE /\ unit' = r.unit
          /\ pos' = r.pos
          /\ units' = IF r.act = "verbatim" THEN Append(units, r.unit) ELSE units
          /\ tile_iter' = tile_iter + 1
          /\ UNCHANGED << variant, buf, pc, result, header, masks_offsets,
                          mask_iter, masks, index, loop_len, is_ffda, files,
                          lzo, full_len, unpack >>

\* read_jpeg returned Ok(()): units.push(unit), on to the next index entry
PushUnit ==
  /\ result = "none"
  /\ pc = "jpeg_done"
  /\ units' = Append(units, unit)
  /\ tile_iter' = tile_iter + 1
  /\ pc' = "unit"
  /\ UNCHANGED << variant, buf, pos, result, header, masks_offsets, mask_iter,
                  masks, unit, index, loop_len, is_ffda, files, lzo, full_len, unpack >>

\* read_unit returns Ok(units); decode returns Ok(Map { header, masks, units })
UnitReturn ==
  /\ result = "none"
  /\ pc = "unit"
  /\ tile_iter > Len(header[1].map_index_list)
  /\ result' = "Ok"
  /\ UNCHANGED << variant, buf, pos, pc, header, masks_offsets, mask_iter,
                  masks, tile_iter, units, unit, index, loop_len, is_ffda,
                  files, lzo, full_len, unpack >>

(***************************************************************************)
(* The repair loop on its own: the cursor has just delivered the payload.  *)
(***************************************************************************)
JpegAlphabet == { 1, 217, 218, 255 }

JpegShort == SeqsUpTo(JpegAlphabet, MaxShort)

ScanHeaders ==
  { << 255, 218, 0, 8 >> \o Rep(1, 9),
    << 255, 218, 0, 8, 255 >> \o Rep(1, 8),
    << 255, 218, 0, 8, 1, 255, 217 >> \o Rep(1, 6) }

JpegStructured ==
  { pre \o h \o scan \o term :
      pre \in { <<>>, << 216 >>, << 255, 216 >> },
      h \in ScanHeaders,
      scan \in SeqsUpTo({ 1, 255 }, MaxScan),
      term \in { <<>>, << 255, 217 >> } }

JpegPayloads == JpegShort \cup JpegStructured

InitJpeg ==
  /\ variant \in { "map", "new_map" }
  /\ buf \in JpegPayloads
  /\ pos = Len(buf)
  /\ pc = "jpeg"
  /\ result = "none"
  /\ header = <<>>
  /\ masks_offsets = <<>>
  /\ mask_iter = 1
  /\ masks = <<>>
  /\ tile_iter = 1
  /\ units = <<>>
  /\ unit = [unit_flag |-> TAG_GEPJ, size |-> Len(buf), unit_data |-> buf]
  /\ index = 0
  /\ loop_len = Len(buf)
  /\ is_ffda = FALSE
  /\ files = {}
  /\ lzo = <<>>
  /\ full_len = Len(buf)
  /\ unpack = NoUnpack

NextJpeg == JpegScan \/ JpegStuff \/ JpegReturn

SpecJpeg == InitJpeg /\ [][NextJpeg]_vars

(***************************************************************************)
(* The unpacking loop of read_mask on its own (new_map.rs), entered with   *)
(* a plane the decompressor filled, for every mask size up to the bounds.  *)
(***************************************************************************)
InitMask ==
  /\ variant = "new_map"
  /\ buf = <<>>
  /\ pos = 0
  /\ pc = "unpack"
  /\ result = "none"
  /\ header = <<>>
  /\ masks_offsets = <<>>
  /\ mask_iter = 1
  /\ masks = <<>>
  /\ tile_iter = 1
  /\ units = <<>>
  /\ unit = EmptyUnit
  /\ index = 0
  /\ loop_len = 0
  /\ is_ffda = FALSE
  /\ files = {}
  /\ lzo = <<>>
  /\ full_len = 0
  /\ \E width \in 0..MaxMaskW, height \in 0..MaxMaskH, fill \in PlaneBytes :
       unpack = UnpackStart(width, height, fill)

NextMask == UnpackPixel \/ UnpackNextRow \/ UnpackReturn

SpecMask == InitMask /\ [][NextMask]_vars

(***************************************************************************)
(* Claims about the repair loop (checked under SpecJpeg).                  *)
(***************************************************************************)
\* the payload as it stands in the archive: the `size` bytes before the cursor
Orig == SubSeq(buf, pos - unit.size + 1, pos)

\* 0-based position of the first {0xFF,0xDA} pair of o, or -1
FirstMarker(o) ==
  LET hits == { p \in 0..(Len(o) - 2) : o[p + 1] = 255 /\ o[p + 2] = 218 }
  IN IF hits = {} THEN -1 ELSE CHOOSE p \in hits : \A q \in hits : p <= q

\* byte stuffing as the JPEG rule states it: one 0x00 after every 0xFF
RECURSIVE Stuffed(_)
Stuffed(s) ==
  IF s = <<>> THEN <<>>
  ELSE IF Head(s) = 255 THEN << 255, 0 >> \o Stuffed(Tail(s))
  ELSE << Head(s) >> \o Stuffed(Tail(s))

CountFF(s) == Cardinality({ k \in 1..Len(s) : s[k] = 255 })

\* o is: anything without a marker, {FF,DA}, 2 length bytes, 9 header-body
\* bytes, scan data in which no 0xFF is followed by 0xD9, then {FF,D9}.
\* The scan header is taken free of 0xFF, so that what C9 is about (0xFF
\* bytes inside the scan header) plays no part here.
C3Shape(o) ==
  LET p == FirstMarker(o) L == Len(o) IN
  /\ p >= 0
  /\ L >= p + 15
  /\ o[L - 1] = 255 /\ o[L] = 217
  /\ \A k \in (p + 3)..(p + 13) : o[k] # 255
  /\ \A k \in (p + 14)..(L - 2) : o[k] = 255 => o[k + 1] # 217

\* C3: for a payload of that shape with N literal 0xFF bytes in its scan
\* data, the repaired payload has 0x0C at p+3, {00,3F,00} at p+13..p+15, one
\* 0x00 after each of the N bytes, and length L + 3 + N.
C3_RepairStructure ==
  LET o == Orig
      p == FirstMarker(o)
      L == Len(o)
      d == unit.unit_data
      scan == SubSeq(o, p + 14, L - 2)
  IN (pc \in { "jpeg", "jpeg_done" } /\ C3Shape(o)
        /\ (pc = "jpeg_done" \/ result # "none"))
       => /\ pc = "jpeg_done"
          /\ Len(d) = L + 3 + CountFF(scan)
          /\ d[p + 4] = 12
          /\ SubSeq(d, p + 14, p + 16) = << 0, 63, 0 >>
          /\ SubSeq(d, p + 17, Len(d)) = Stuffed(scan) \o << 255, 217 >>

\* C9: once the marker at p is rewritten, the loop next examines p+16; the
\* bytes p+1..p+15 are left as written (DA, length, header body, triplet).
C9_ScanHeaderSkipped ==
  LET o == Orig
      p == FirstMarker(o)
      d == unit.unit_data
  IN (pc \in { "jpeg", "jpeg_done" } /\ is_ffda)
       => /\ (pc = "jpeg" => index >= p + 16)
          /\ SubSeq(d, p + 1, p + 16)
               = SubSeq(o, p + 1, p + 3) \o << 12 >> \o SubSeq(o, p + 5, p + 13)
                   \o << 0, 63, 0 >>

\* what one iteration at index i touches, against the payload's bounds
IterInBounds(d, i, ffda) ==
  /\ i < Len(d)
  /\ d[i + 1] = 255 => i + 1 < Len(d)
  /\ (~ffda /\ d[i + 1] = 255 /\ i + 1 < Len(d) /\ d[i + 2] = 218)
       => (i + 3 < Len(d) /\ i + 13 <= Len(d))

\* C10: every index an iteration of the repair loop reads, overwrites or
\* inserts at is within the payload, and the iteration does not panic.
C10_RepairMemorySafe ==
  [][(pc = "jpeg" /\ result = "none" /\ index < loop_len)
       => (IterInBounds(unit.unit_data, index, is_ffda) /\ result' # "Panic")]_vars

(***************************************************************************)
(* Archive files: the layout of section 6, written out from its parts.     *)
(***************************************************************************)
MaskRecordBytes(m) ==
  to_le_bytes(m.x) \o to_le_bytes(m.y) \o to_le_bytes(m.width)
    \o to_le_bytes(m.height) \o to_le_bytes(Len(m.payload)) \o m.payload

TileRecordBytes(t) ==
  to_le_bytes(t.unk) \o Rep(9, 4 * t.unk) \o t.tag
    \o to_le_bytes(Len(t.payload)) \o t.payload

RECURSIVE SumLen(_, _)
SumLen(ss, n) == IF n = 0 THEN 0 ELSE Len(ss[n]) + SumLen(ss, n - 1)

Archive(magic, w, h, ms, ts) ==
  LET M == Len(ms)
      T == Len(ts)
      mrec == [i \in 1..M |-> MaskRecordBytes(ms[i])]
      trec == [i \in 1..T |-> TileRecordBytes(ts[i])]
      base == 12 + 4 * T + 8 + 4 * M
      tbase == base + SumLen(mrec, M)
  IN magic \o to_le_bytes(w) \o to_le_bytes(h)
       \o Concat([i \in 1..T |-> to_le_bytes(tbase + SumLen(trec, i - 1))])
       \o to_le_bytes(0) \o to_le_bytes(M)
       \o Concat([i \in 1..M |-> to_le_bytes(base + SumLen(mrec, i - 1))])
       \o Concat(mrec) \o Concat(trec)

Tile(tag, unk, payload) == [tag |-> tag, unk |-> unk, payload |-> payload]

GoodScan == << 255, 218, 0, 8 >> \o Rep(1, 9) \o << 255, 1, 255, 217 >>

TAG_OTHER == << 88, 88, 88, 88 >>
TAG_NON_ASCII == << 195, 169, 195, 169 >>
TAG_NOT_UTF8 == << 255, 254, 80, 74 >>

PlainTile == Tile(TAG_2GPJ, 1, GoodScan)

TileChoices ==
  { PlainTile,
    Tile(TAG_2GPJ, 0, <<>>),
    Tile(TAG_GEPJ, 0, GoodScan),
    Tile(TAG_GEPJ, 0, << 255 >>),
    Tile(TAG_OTHER, 0, << 7 >>),
    Tile(TAG_NON_ASCII, 1, <<>>),
    Tile(TAG_NOT_UTF8, 0, <<>>) }

TileSeqs == SeqsUpTo(TileChoices, 2)

\* the picture size that gives a grid of T cells
DimsFor(T) == IF T = 0 THEN << 0, 0 >> ELSE << TILE_W * T, TILE_H >>

MaskPayload(i) == << 40 + i >>

MaskRec(i) == [x |-> i, y |-> 2 * i, width |-> 5, height |-> 2, payload |-> MaskPayload(i)]

MaskSeqs == { [i \in 1..M |-> MaskRec(i)] : M \in 0..MaxMasks }

MaskPayloads == { MaskPayload(i) : i \in 1..MaxMasks }

BadMagics ==
  { << 48, 46, 49, 78 >>, << 77, 49, 46, 48 >>, << 255, 255, 255, 255 >>,
    << 48, 46, 49, 195 >>, << 0, 0, 0, 0 >> }

\* heights and widths on both sides of the 2^24 limit of exact f32 integers
BigHeights == { 16777216, 16777441, 31457281, 2147483000 }
BigWidths == { 16777281, 16777600 }

HeaderDims ==
  ({ 0, 1, TILE_W } \X BigHeights) \cup (BigWidths \X { 0, 1, TILE_H })
    \cup { << 1, 1 >>, << TILE_W, TILE_H >>, << TILE_W + 1, TILE_H >>,
           << TILE_W, TILE_H + 1 >>, << 2 * TILE_W, TILE_H >>, << 0, TILE_H >>,
           << 1, 2 * TILE_H >> }

\* the number of index entries written for a picture size: the grid's cell
\* count where the file can hold it, none for the oversized pictures
CellsWritten(w, h) ==
  IF w >= 16777216 \/ h >= 16777216 THEN 0
  ELSE ((w + TILE_W - 1) \div TILE_W) * ((h + TILE_H - 1) \div TILE_H)

HeaderArchives ==
  { Archive(m, TILE_W, TILE_H, <<>>, << PlainTile >>) : m \in BadMagics }
    \cup { Archive(MAGIC, d[1], d[2], <<>>, Rep(PlainTile, CellsWritten(d[1], d[2]))) :
             d \in HeaderDims }

FullArchives ==
  { Archive(MAGIC, DimsFor(Len(ts))[1], DimsFor(Len(ts))[2], ms, ts) :
      ms \in MaskSeqs, ts \in TileSeqs }

\* the archives that are cut short at every length
CutArchives ==
  { Archive(MAGIC, DimsFor(Len(ts))[1], DimsFor(Len(ts))[2], ms, ts) :
      ms \in MaskSeqs,
      ts \in { << PlainTile >>,
               << Tile(TAG_GEPJ, 0, GoodScan), PlainTile >>,
               << Tile(TAG_OTHER, 0, << 7 >>), Tile(TAG_2GPJ, 0, <<>>) >> } }

Init ==
  /\ variant \in { "map", "new_map" }
  /\ lzo \in [MaskPayloads -> { "OK", "ERR" }]
  /\ \E a \in HeaderArchives \cup FullArchives \cup CutArchives :
       /\ full_len = Len(a)
       /\ \/ buf = a
          \/ /\ a \in CutArchives
             /\ \A e \in DOMAIN lzo : lzo[e] = "OK"
             /\ \E n \in 0..(Len(a) - 1) : buf = SubSeq(a, 1, n)
  /\ pos = 0
  /\ pc = "header"
  /\ result = "none"
  /\ header = <<>>
  /\ masks_offsets = <<>>
  /\ mask_iter = 1
  /\ masks = <<>>
  /\ tile_iter = 1
  /\ units = <<>>
  /\ unit = EmptyUnit
  /\ index = 0
  /\ loop_len = 0
  /\ is_ffda = FALSE
  /\ files = {}
  /\ unpack = NoUnpack

Next ==
  \/ DecodeHeader
  \/ ReadMaskTable
  \/ ReadMaskRecord
  \/ MaskReturn
  \/ ReadUnit
  \/ JpegScan
  \/ JpegStuff
  \/ JpegReturn
  \/ PushUnit
  \/ UnitReturn

Spec == Init /\ [][Next]_vars

(***************************************************************************)
(* Claims about the decode pipeline (checked under Spec).                  *)
(***************************************************************************)
CeilDiv(n, d) == (n + d - 1) \div d

\* C1: an accepted header has rows = ceil(height/240), cols =
\* ceil(width/320), index_size = rows*cols, and rows*cols offsets, the j-th
\* being the little-endian word at bytes 12+4j..12+4j+3 of the buffer.
C1_HeaderGeometry ==
  header # <<>> =>
    LET h == header[1] IN
    /\ h.width = buf[5] + 256 * buf[6] + 65536 * buf[7] + 16777216 * buf[8]
    /\ h.height = buf[9] + 256 * buf[10] + 65536 * buf[11] + 16777216 * buf[12]
    /\ h.rows = CeilDiv(h.height, 240)
    /\ h.cols = CeilDiv(h.width, 320)
    /\ h.index_size = h.rows * h.cols
    /\ Len(h.map_index_list) = h.rows * h.cols
    /\ \A j \in 0..(Len(h.map_index_list) - 1) :
         h.map_index_list[j + 1]
           = buf[13 + 4 * j] + 256 * buf[14 + 4 * j] + 65536 * buf[15 + 4 * j]
               + 16777216 * buf[16 + 4 * j]

\* C2: a buffer whose first 4 bytes are not "0.1M" is refused with
\* InvalidFormat, whatever the 4 bytes are, and no header is returned.
C2_BadMagicInvalidFormat ==
  (Len(buf) >= 4 /\ SubSeq(buf, 1, 4) # << 48, 46, 49, 77 >>)
    => /\ pc = "header"
       /\ header = <<>>
       /\ result \in { "none", "InvalidFormat" }

\* the tile record at an offset, read off the buffer field by field
TileHeadAt(b, off) ==
  IF ~CanRead(b, off, 4) THEN <<>>
  ELSE LET at == off + 4 + 4 * U32At(b, off) IN
       IF ~CanRead(b, off + 4, 4 * U32At(b, off)) \/ ~CanRead(b, at, 8) THEN <<>>
       ELSE << [tag |-> Bytes(b, at, 4), size |-> U32At(b, at + 4), payload |-> at + 8] >>

IsRecognized(b, off) ==
  /\ TileHeadAt(b, off) # <<>>
  /\ TileHeadAt(b, off)[1].tag \in { TAG_GEPJ, TAG_2GPJ }

\* the index entries with a recognized tag, in index-list order
Recognized(b, list) == SelectSeq(list, LAMBDA off : IsRecognized(b, off))

\* C4: a unit pushed for a "2GPJ" record of declared size S holds exactly
\* the S bytes that follow the record's 8-byte tag/size header.
C4_PlainJpegVerbatim ==
  header # <<>> =>
    LET rec == Recognized(buf, header[1].map_index_list) IN
    \A j \in 1..Len(units) :
      units[j].unit_flag = TAG_2GPJ =>
        /\ j <= Len(rec)
        /\ LET t == TileHeadAt(buf, rec[j])[1] IN
           /\ t.tag = TAG_2GPJ
           /\ units[j].size = t.size
           /\ Len(units[j].unit_data) = t.size
           /\ units[j].unit_data = SubSeq(buf, t.payload + 1, t.payload + t.size)

C4_Witness ==
  /\ result = "Ok"
  /\ \E j \in 1..Len(units) :
       /\ units[j].unit_flag = TAG_2GPJ
       /\ FirstMarker(units[j].unit_data) >= 0
       /\ CountFF(units[j].unit_data) >= 3

\* the fixed-size field decode is about to read, with fewer bytes left in
\* the buffer than the field has
LackingFixedField ==
  /\ result = "none"
  /\ \/ /\ pc = "header"
        /\ \/ Len(buf) < 4
           \/ /\ SubSeq(buf, 1, 4) = MAGIC
              /\ \/ Len(buf) < 12
                 \/ Len(buf) < 12 + 4 * f32_div_ceil(U32At(buf, 8), TILE_H)
                                      * f32_div_ceil(U32At(buf, 4), TILE_W)
     \/ /\ pc = "mask_table"
        /\ \/ Remaining(buf, pos) < 8
           \/ Remaining(buf, pos + 8) < 4 * U32At(buf, pos + 4)
     \/ /\ pc = "mask_record"
        /\ mask_iter <= Len(masks_offsets)
        /\ Remaining(buf, masks_offsets[mask_iter]) < 20
     \/ /\ pc = "unit"
        /\ tile_iter <= Len(header[1].map_index_list)
        /\ LET off == header[1].map_index_list[tile_iter] IN
           \/ Remaining(buf, off) < 4
           \/ /\ CanRead(buf, off + 4, 4 * U32At(buf, off))
              /\ Remaining(buf, off + 4 + 4 * U32At(buf, off)) < 8

\* C5: when an archive cut short leaves fewer bytes than the next fixed-size
\* field needs (also when a mask or tile offset lies past the end), decode
\* returns Truncated: no panic, no other error, no archive.
C5_TruncatedFixedField == [][LackingFixedField => result' = "Truncated"]_vars

C5_Witness ==
  /\ result = "Truncated"
  /\ Len(buf) < full_len
  /\ pc = "unit"
  /\ tile_iter = 2
  /\ header[1].map_index_list[tile_iter] > Len(buf)

\* the mask records of the offset table whose payload the decompressor
\* answers with a non-OK status
BadMasks ==
  { i \in 1..Len(masks_offsets) :
      LET pl == MaskPayloadAt(buf, masks_offsets[i]) IN
      /\ pl # <<>>
      /\ pl[1] \in DOMAIN lzo
      /\ lzo[pl[1]] = "ERR" }

\* C6: a mask record the decompressor fails on stops decode with
\* MaskDecompressionFailed: it is not kept, nothing after it is read, and
\* no archive is returned.
C6_MaskFailureAborts ==
  \A i \in BadMasks :
    /\ Len(masks) < i
    /\ mask_iter <= i
    /\ pc = "mask_record"
    /\ units = <<>>
    /\ result # "Ok"
    /\ (mask_iter = i /\ result # "none") => result = "MaskDecompressionFailed"

\* when tile reading has succeeded, the units are the recognized records,
\* in index-list order, and every index entry carried a readable tag
UnitsAreRecognized ==
  (pc = "unit" /\ result = "Ok") =>
    LET list == header[1].map_index_list
        rec == Recognized(buf, list)
    IN /\ \A j \in 1..Len(list) :
            /\ TileHeadAt(buf, list[j]) # <<>>
            /\ IsUtf8(TileHeadAt(buf, list[j])[1].tag)
       /\ Len(units) = Len(rec)
       /\ Len(units) <= header[1].rows * header[1].cols
       /\ \A j \in 1..Len(units) :
            /\ units[j].unit_flag = TileHeadAt(buf, rec[j])[1].tag
            /\ units[j].size = TileHeadAt(buf, rec[j])[1].size

\* read_unit stands at an index entry whose record carries another tag
AtOtherTag ==
  /\ result = "none"
  /\ pc = "unit"
  /\ tile_iter <= Len(header[1].map_index_list)
  /\ TileHeadAt(buf, header[1].map_index_list[tile_iter]) # <<>>
  /\ ~IsRecognized(buf, header[1].map_index_list[tile_iter])

AtOtherUtf8Tag ==
  /\ AtOtherTag
  /\ IsUtf8(TileHeadAt(buf, header[1].map_index_list[tile_iter])[1].tag)

\* the entry is passed over: nothing appended, no failure, next entry
Skipped ==
  /\ result' = "none"
  /\ pc' = "unit"
  /\ units' = units
  /\ tile_iter' = tile_iter + 1

\* C7: on an archive whose tile reading succeeds the units are exactly the
\* tiles tagged "GEPJ" or "2GPJ", in index-list order, so their number is
\* the number of recognized entries and at most rows*cols; an entry with
\* any other tag appends nothing, does not fail and is followed by the next
\* entry.  (Every tag of such an archive is well-formed UTF-8: the tag is
\* converted with String::from_utf8 before it is compared.)
C7_UnitsAreRecognizedTiles ==
  []UnitsAreRecognized /\ [][AtOtherUtf8Tag => Skipped]_vars

C7_Witness ==
  /\ result = "Ok"
  /\ pc = "unit"
  /\ Len(header[1].map_index_list) = 2
  /\ TileHeadAt(buf, header[1].map_index_list[1])[1].tag = TAG_NON_ASCII
  /\ Len(units) = 1
  /\ units[1].unit_flag = TAG_GEPJ

\* C8: a decode that fails leaves nothing behind: no archive is returned and
\* no output is visible.  Stated for the case the claim singles out: the
\* header and every mask record were decoded and a tile record then fails;
\* nothing written while the masks were processed is left.
C8_AllOrNothing ==
  (result \notin { "none", "Ok" } /\ pc \in { "unit", "jpeg" }) => files = {}

(***************************************************************************)
(* C11: mask bit-plane unpacking never reads outside the decompressed      *)
(* buffer.                                                                 *)
(***************************************************************************)
\* align4 as the claim defines it: the width rounded up to a multiple of 4
Align4(w) == ((w \div 4) + (IF w % 4 # 0 THEN 1 ELSE 0)) * 4

\* C11: for every mask width and height, the plane the loop indexes is
\* (align4(width) * height) >> 2 bytes long, every pixel (k, i) the loop
\* reads lies at a byte index strictly below that length and at a bit
\* offset that is one of 0, 2, 4, 6, so no read leaves the buffer and no
\* 2-bit field straddles a byte boundary.
C11_UnpackInBounds ==
  pc = "unpack" =>
    /\ result # "Panic"
    /\ Len(unpack.out) = (Align4(unpack.width) * unpack.height) \div 4
    /\ unpack.k < unpack.height /\ unpack.i < unpack.width =>
         /\ MaskByteIndex(unpack.width, unpack.k, unpack.i) < Len(unpack.out)
         /\ MaskBitOffset(unpack.width, unpack.k, unpack.i) \in { 0, 2, 4, 6 }
    /\ \A n \in DOMAIN unpack.read :
         /\ unpack.read[n].byte < (Align4(unpack.width) * unpack.height) \div 4
         /\ unpack.read[n].shift \in { 0, 2, 4, 6 }

\* the loop has run to its end over a mask whose width is not a multiple
\* of four and whose rows are more than one, the last pixel was read from
\* the last byte of the plane, and a set field was found there
C11_Witness ==
  /\ pc = "unpack"
  /\ result = "Ok"
  /\ unpack.width % 4 # 0
  /\ unpack.width > 4
  /\ unpack.height > 1
  /\ unpack.desc = unpack.width * unpack.height
  /\ unpack.read # <<>>
  /\ unpack.read[1].byte = Len(unpack.out) - 1
  /\ unpack.mask_data[unpack.desc] = 240

====
